---- MODULE Spec2Model ----
(***************************************************************************)
(* Certificate-and-keychain lifecycle of install-ios-certificate.          *)
(*                                                                         *)
(* One job on one build host: the installer step (installSigningCertTask,  *)
(* src/src/installcert.ts and its compiled twin lib/postinstallcert.js),   *)
(* the keychain manager it drives (src/src/ios-signing.ts) and the         *)
(* teardown step (src/src/postinstallcert.ts).  Every `await exec.exec`    *)
(* is one step of the model; the synchronous code between two awaits is    *)
(* part of the step that precedes it, as in the JavaScript event loop.     *)
(* Native tools (security, openssl, base64, grep) and the file system are  *)
(* the environment: a tool call either fails (the promise rejects) or has  *)
(* its documented effect on the host state.                                *)
(***************************************************************************)
EXTENDS Integers, Sequences, FiniteSets, TLC

VARIABLES
    build,        \* which installer is running: "src" (installcert.ts) or "lib" (compiled)
    platform,     \* os.platform() of the host
    keychains,    \* host: keychain path -> [exists, pwd, locked, timeout, hasIdentity, acl]
    searchList,   \* host: the user keychain search list, a sequence of paths
    files,        \* host: scratch files that exist
    env,          \* job-wide exported variables (core.exportVariable)
    inputs,       \* the action inputs of the installer run (core.getInput)
    taskState,    \* promise of installSigningCertTask(): "idle", "resolved", "rejected"
    taskError,    \* the error that promise rejected with
    pc,           \* position of the fs.writeFile callback
    cbError,      \* error thrown inside the callback (an unhandled rejection)
    failedMsg,    \* message given to core.setFailed
    log,          \* core.error / core.warning messages
    p12,          \* result of getP12Properties
    commonName,   \* the callback's commonName, after the override
    kc,           \* locals of installCertInTemporaryKeychain
    cmds,         \* native tool invocations of the installer run, in issue order
    fsWrites,     \* files handed to fs.writeFile
    pendingRm,    \* io.rmRF calls issued and not awaited, not yet completed
    profiles,     \* host: provisioning profiles installed in the user's directory
    td,           \* teardown step: [state, removeProfile, cmds, warned, threw]
    find,         \* a findSigningIdentity call: [output, stdout, signIdentity, state, error]
    other,        \* another job's installCertInTemporaryKeychain call on the same host
    x509          \* getP12Properties reading the lines of openssl x509: [lines, line, tuple]

vars == <<build, platform, keychains, searchList, files, env, inputs, taskState,
          taskError, pc, cbError, failedMsg, log, p12, commonName, kc, cmds,
          fsWrites, pendingRm, profiles, td, find, other, x509>>

\* What no step of the installer or of teardown touches: the host's properties,
\* the locals of a findSigningIdentity call, those of another job and the
\* lines of a getP12Properties call taken on its own.
hostVars == <<build, platform, profiles, find, other, x509>>

----------------------------------------------------------------------------
(* Bounds *)

MaxListLen == 1     \* longest user search list the host starts with
MaxDeleteCmds == 2  \* delete-keychain commands a series of deleteKeychain calls may issue
MaxInstalls == 2    \* installs in a row on one host

----------------------------------------------------------------------------
(* Values *)

Undefined == "undefined"            \* JavaScript undefined
Unset     == "<unset>"              \* environment variable not exported
NoError   == "<none>"

tempCertFile    == "/tmp/cert.base64"
signingCertFile == "/tmp/cert.p12"

DefaultKeychainPath == "/Users/runner/Library/Keychains/login.keychain"
CustomKeychainPath  == "/Users/runner/custom.keychain"

getTempKeychainPath == "/tmp/ios_signing_temp.keychain"

Paths == {getTempKeychainPath, DefaultKeychainPath, CustomKeychainPath}

\* A keychain of another volume that a search list may name; the host has no
\* such file under the paths the installer works on.
BackupKeychainPath == "/Volumes/backup/Users/runner/custom.keychain"

KeychainTimeout == 21600

UserPwd      == "userpw"        \* password of the login and custom keychains
StalePwd     == "0.stale"       \* random password of a temp keychain left by an earlier job
GeneratedPwd == "0.fresh"       \* Math.random().toString(36) of this run
CertPwd      == "theshakes"

partitionList == "apple-tool:,apple:"

Builds    == {"src", "lib"}
Platforms == {"darwin", "linux"}

VarNames == {"APPLE_CERTIFICATE_SHA1HASH", "signingIdentity", "keychainPassword",
             "APPLE_CERTIFICATE_KEYCHAIN", "keychainPath",
             "APPLE_CERTIFICATE_SIGNING_IDENTITY"}

InputSpace ==
    [encoded: {"", "MIIKkQIBAzCC"},
     keychain: {"", "temp", "default", "custom", "login"},
     keychainPwd: {"", UserPwd},
     certPwd: {"", CertPwd},
     commonNameOverride: {"", "Override Name"},
     customKeychainPath: {""}]        \* read later, in 'custom' mode only

NoInputs == [encoded |-> "", keychain |-> "", keychainPwd |-> "", certPwd |-> "",
             commonNameOverride |-> "", customKeychainPath |-> ""]

\* Dates as the validation sees them: a parsed instant is before or after now.
InvalidDate == "Invalid Date"
Past        == "past"
Future      == "future"

NoP12 == [fingerprint |-> Undefined, commonName |-> Undefined,
          notBefore |-> Undefined, notAfter |-> Undefined, read |-> FALSE]

\* The locals of one installCertInTemporaryKeychain call; `existed` keeps what
\* ioutils.exists(keychainPath) returned on entry.
NoKc == [path |-> Undefined, pwd |-> Undefined, setup |-> FALSE,
         useKeychainIfExists |-> FALSE, existed |-> FALSE,
         privateKeyName |-> Undefined, unknownCommandErrorFound |-> FALSE,
         listAllOutput |-> Undefined, listAddArgs |-> << >>]

NoKeychain == [exists |-> FALSE, pwd |-> Undefined, locked |-> TRUE, timeout |-> 0,
               hasIdentity |-> FALSE, acl |-> FALSE]

NoTd == [state |-> "idle", removeProfile |-> "", cmds |-> << >>, warned |-> FALSE,
         threw |-> FALSE]

ProfileFile == "0f3c9a1e-profile.mobileprovision"

\* The locals of one findSigningIdentity call: the whole output of the tool,
\* the part of it not yet delivered to the listener, signIdentity, and how the
\* call ended.
NoFind == [output |-> "", stdout |-> "", signIdentity |-> Undefined,
           state |-> "none", error |-> NoError]

\* What splitIntoKeyValue returns when it returns undefined.
NoTuple == [defined |-> FALSE, key |-> "", value |-> ""]

\* The loop of getP12Properties over the lines of the output: the lines still
\* to come, the line onLine got last and what splitIntoKeyValue made of it.
NoX509 == [lines |-> << >>, line |-> "", tuple |-> NoTuple]

\* The locals of the installCertInTemporaryKeychain call of another job on the
\* host, from its listing of the search list on, and the commands it issued.
NoOther == [path |-> Undefined, pc |-> "none", listAllOutput |-> Undefined,
            listAddArgs |-> << >>, cmds |-> << >>, error |-> NoError]

\* Duplicate-free sequences over S of length at most n.
RECURSIVE SeqsUpTo(_, _)
SeqsUpTo(S, n) ==
    IF n = 0 THEN {<< >>}
    ELSE LET shorter == SeqsUpTo(S, n - 1)
         IN  shorter \cup {Append(s, x) : s \in {t \in shorter : Len(t) = n - 1},
                                            x \in S}

Range(s) == {s[i] : i \in 1..Len(s)}

InitialLists == {s \in SeqsUpTo(Paths, MaxListLen) : Cardinality(Range(s)) = Len(s)}

----------------------------------------------------------------------------
(* Helpers of the libraries the code calls *)

\* JavaScript truthiness of a string-or-undefined value.
Falsy(v) == v = Undefined \/ v = ""

\* core.getInput(name, {required: true}) throws when the value is empty.
getInputThrows(val, required) == required /\ val = ""

\* ioutils.exists(path)
exists(path) == path \in Paths /\ keychains[path].exists

\* @actions/exec: the invocation is logged in issue order; the promise then
\* resolves or rejects.
exec(argv) == cmds' = Append(cmds, argv)

\* io.rmRF(path) called without await: the removal is only scheduled.
rmRF(paths) == pendingRm' = pendingRm \cup paths

\* core.exportVariable(name, val) applied to an environment e.
exportVariable(e, name, val) == [e EXCEPT ![name] = val]

\* An exception thrown inside the async fs.writeFile callback: the callback's
\* promise rejects and nobody handles it.
Throw(err) == /\ cbError' = err
              /\ pc' = "failed"

ExecFailed(tool) == "The process '" \o tool \o "' failed"

\* String.prototype.indexOf: the 0-based place of the first occurrence, or -1.
indexOf(text, needle) ==
    LET hits == {i \in 1..(Len(text) - Len(needle) + 1) :
                    SubSeq(text, i, i + Len(needle) - 1) = needle}
    IN  IF hits = {} THEN -1
        ELSE (CHOOSE i \in hits : \A j \in hits : i <= j) - 1

Whitespace == {" ", "\n", "\t", "\r"}

\* String.prototype.trim
RECURSIVE trim(_)
trim(s) ==
    IF s = "" THEN s
    ELSE IF SubSeq(s, 1, 1) \in Whitespace THEN trim(SubSeq(s, 2, Len(s)))
    ELSE IF SubSeq(s, Len(s), Len(s)) \in Whitespace
         THEN trim(SubSeq(s, 1, Len(s) - 1))
    ELSE s

\* text.split(/[\n\r\f\v]/gm), on an output whose only line breaks are \n.
RECURSIVE split(_)
split(text) ==
    LET i == indexOf(text, "\n")
    IN  IF i < 0 THEN <<text>>
        ELSE <<SubSeq(text, 1, i)>> \o split(SubSeq(text, i + 2, Len(text)))

\* s.replace(/"/gm, '')
RECURSIVE replaceQuotes(_)
replaceQuotes(s) ==
    LET i == indexOf(s, "\"")
    IN  IF i < 0 THEN s
        ELSE SubSeq(s, 1, i) \o replaceQuotes(SubSeq(s, i + 2, Len(s)))

----------------------------------------------------------------------------
(* Initial state: a build host before the installer step *)

InitialKeychains ==
    {[p \in Paths |->
        IF p = DefaultKeychainPath
        THEN [exists |-> TRUE, pwd |-> UserPwd, locked |-> TRUE,
              timeout |-> 0, hasIdentity |-> FALSE, acl |-> FALSE]
        ELSE IF p = getTempKeychainPath /\ tempLeft
        THEN [exists |-> TRUE, pwd |-> StalePwd, locked |-> TRUE,
              timeout |-> KeychainTimeout, hasIdentity |-> TRUE, acl |-> FALSE]
        ELSE IF p = CustomKeychainPath /\ customThere
        THEN [exists |-> TRUE, pwd |-> UserPwd, locked |-> TRUE,
              timeout |-> 0, hasIdentity |-> FALSE, acl |-> FALSE]
        ELSE NoKeychain]
     : tempLeft \in BOOLEAN, customThere \in BOOLEAN}

Init ==
    /\ build \in Builds
    /\ platform \in Platforms
    /\ keychains \in InitialKeychains
    /\ searchList \in InitialLists
    /\ files = {}
    /\ env = [v \in VarNames |-> Unset]
    /\ inputs = NoInputs
    /\ taskState = "idle"
    /\ taskError = NoError
    /\ pc = "none"
    /\ cbError = NoError
    /\ failedMsg = NoError
    /\ log = {}
    /\ p12 = NoP12
    /\ commonName = Undefined
    /\ kc = NoKc
    /\ cmds = << >>
    /\ fsWrites = << >>
    /\ pendingRm = {}
    /\ profiles = {ProfileFile}
    /\ td = NoTd
    /\ find = NoFind
    /\ x509 = NoX509
    /\ other = NoOther

----------------------------------------------------------------------------
(* installSigningCertTask: the synchronous body of the task *)

\* A finally block that removes nothing.
NoFinallyRemovals == {}

\* The finally block: empty in installcert.ts, two un-awaited removals in the
\* compiled installer.
FinallyRemovals == IF build = "lib" THEN {tempCertFile, signingCertFile} ELSE {}

\* The platform check left out.
AnyPlatform(pf) == FALSE

\* if (os.platform() !== 'darwin') throw new Error('InstallRequiresMac')
RequiresMac(pf) == pf # "darwin"

\* A blank certificate that is taken for a supplied one.
BlankTakenAsSupplied(encodedSigningCertData) == FALSE

\* if (encodedSigningCertData) ... else: the else branch is taken for a blank input.
IsBlank(encodedSigningCertData) == encodedSigningCertData = ""

\* The task function up to the point where its promise settles.
installSigningCertTask ==
    /\ taskState = "idle"
    /\ UNCHANGED <<hostVars, keychains, searchList, files, env, cbError, p12, commonName, kc,
                   cmds, td>>
    /\ IF RequiresMac(platform)
       THEN /\ taskState' = "rejected"
            /\ taskError' = "InstallRequiresMac"
            /\ UNCHANGED <<inputs, failedMsg, log, fsWrites, pendingRm>>
       ELSE \E in \in InputSpace :
            /\ inputs' = in
            /\ IF getInputThrows(in.keychain, TRUE)
               THEN /\ taskState' = "rejected"
                    /\ taskError' = "Input required and not supplied: keychain"
                    /\ UNCHANGED <<failedMsg, log, fsWrites, pendingRm>>
               ELSE IF getInputThrows(in.certPwd, TRUE)
               THEN /\ taskState' = "rejected"
                    /\ taskError' = "Input required and not supplied: certificate-password"
                    /\ UNCHANGED <<failedMsg, log, fsWrites, pendingRm>>
               ELSE /\ taskState' = "resolved"
                    /\ taskError' = NoError
                    /\ rmRF(FinallyRemovals)
                    /\ IF ~IsBlank(in.encoded)
                       THEN /\ fsWrites' = Append(fsWrites, tempCertFile)
                            /\ UNCHANGED <<failedMsg, log>>
                       ELSE /\ log' = log \cup {"Secret containing BASE64 of P12 cert not valid, or contents invalid."}
                            /\ failedMsg' = "Contents of P12 invalid."
                            /\ UNCHANGED fsWrites
    /\ pc' = IF taskState' = "resolved" /\ fsWrites' # << >> THEN "writeFile" ELSE "none"

----------------------------------------------------------------------------
(* The fs.writeFile callback of the installer, up to the certificate checks *)

\* fs.writeFile completes and calls back: with an error (only logged), or with
\* the file written; the callback then runs up to `await exec(base64 ...)`.
WriteFileCallback ==
    /\ pc = "writeFile"
    /\ UNCHANGED <<hostVars, keychains, searchList, env, inputs, taskState, taskError,
                   cbError, failedMsg, p12, commonName, kc, cmds, fsWrites, pendingRm, td>>
    /\ \E err \in BOOLEAN :
        IF err
        THEN /\ log' = log \cup {"could not write base64 signing cert file to /tmp"}
             /\ pc' = "writeError"
             /\ UNCHANGED files
        ELSE /\ files' = files \cup {tempCertFile}
             /\ pc' = "base64"
             /\ UNCHANGED log

\* The decode started without await: the callback goes on to getP12Properties
\* and issues openssl pkcs12 while base64 is still running.
DecodeNotAwaited ==
    /\ pc = "base64"
    /\ cmds' = cmds \o <<(<<"base64", "-d", "-i", tempCertFile, "-o", signingCertFile>>),
                         (<<"openssl", "pkcs12", "-in", signingCertFile, "-out",
                            "/tmp/step1.openssl", "-nokeys", "-passin",
                            "pass:" \o inputs.certPwd>>)>>
    /\ files' = files \cup {signingCertFile}
    /\ rmRF({tempCertFile})
    /\ pc' = "x509"
    /\ UNCHANGED <<hostVars, keychains, searchList, env, inputs, taskState, taskError,
                   failedMsg, log, p12, commonName, kc, fsWrites, td, cbError>>

\* exec base64 -d -i tempCertFile -o signingCertFile, then the un-awaited removal
\* of the base64 file and getP12Properties up to its first exec.
DecodeBase64 ==
    /\ pc = "base64"
    /\ exec(<<"base64", "-d", "-i", tempCertFile, "-o", signingCertFile>>)
    /\ UNCHANGED <<hostVars, keychains, searchList, env, inputs, taskState, taskError,
                   failedMsg, log, p12, commonName, kc, fsWrites, td>>
    /\ \E ok \in BOOLEAN :
        IF ok /\ tempCertFile \in files
        THEN /\ files' = files \cup {signingCertFile}
             /\ rmRF({tempCertFile})
             /\ pc' = "pkcs12"
             /\ UNCHANGED cbError
        ELSE /\ Throw(ExecFailed("base64"))
             /\ UNCHANGED <<files, pendingRm>>

\* getP12Properties: openssl pkcs12 -in p12Path -out /tmp/step1.openssl -nokeys
\* (outside the function's try block).
OpensslPkcs12 ==
    /\ pc = "pkcs12"
    /\ exec(<<"openssl", "pkcs12", "-in", signingCertFile, "-out", "/tmp/step1.openssl",
              "-nokeys", "-passin", "pass:" \o inputs.certPwd>>)
    /\ UNCHANGED <<hostVars, keychains, searchList, files, env, inputs, taskState,
                   taskError, failedMsg, log, p12, commonName, kc, fsWrites, pendingRm, td>>
    /\ \E ok \in BOOLEAN :
        IF ok /\ signingCertFile \in files
        THEN /\ pc' = "x509"
             /\ UNCHANGED cbError
        ELSE Throw(ExecFailed("openssl"))

----------------------------------------------------------------------------
(* getP12Properties: the x509 listing and what onLine makes of it *)

NoLine == "<no line>"

FingerprintText == "BB:26:83:C6:AA:88:35:DE"
SubjectWithCN   == "/UID=E848ASUQZY/CN=iPhone Developer: Chris Sidi (7RZ3N927YF)/OU=DJ8T2973U7"
SubjectNoCN     == "/UID=E848ASUQZY/OU=DJ8T2973U7/O=Chris Sidi/C=US"
DatePastText    == "Nov 13 03:37:42 2018 GMT"
DateFutureText  == "Nov 13 03:37:42 2118 GMT"
DateGarbageText == "Nov 31 2018"

\* What `openssl x509 -noout -fingerprint -subject -dates` may print about a
\* certificate: each line is there or not, each date is before now, after now
\* or not a date.
X509Outputs ==
    [fingerprint: {NoLine, FingerprintText},
     subject: {SubjectNoCN, SubjectWithCN},
     notBefore: {NoLine, DateGarbageText, DatePastText, DateFutureText},
     notAfter: {NoLine, DateGarbageText, DatePastText, DateFutureText}]

\* The text of such an output: one `key=value` line for each line that is there.
x509Stdout(out) ==
    (IF out.fingerprint = NoLine THEN ""
     ELSE "SHA1 Fingerprint=" \o out.fingerprint \o "\n")
    \o (IF out.subject = NoLine THEN "" ELSE "subject= " \o out.subject \o "\n")
    \o (IF out.notBefore = NoLine THEN "" ELSE "notBefore=" \o out.notBefore \o "\n")
    \o (IF out.notAfter = NoLine THEN "" ELSE "notAfter=" \o out.notAfter \o "\n")

\* splitIntoKeyValue: `if (index)` takes 0 for "no" and -1 for "yes";
\* substring(0, -1) is the empty string and substring(0) the whole line.
\* defined = FALSE stands for the undefined the function returns.
splitIntoKeyValue(line) ==
    LET index == indexOf(line, "=")
    IN  IF index # 0
        THEN [defined |-> TRUE,
              key |-> IF index < 0 THEN "" ELSE SubSeq(line, 1, index),
              value |-> SubSeq(line, index + 2, Len(line))]
        ELSE NoTuple

\* s.replace(/:/g, '')
RECURSIVE replaceColons(_)
replaceColons(s) ==
    LET i == indexOf(s, ":")
    IN  IF i < 0 THEN s
        ELSE SubSeq(s, 1, i) \o replaceColons(SubSeq(s, i + 2, Len(s)))

\* The first colon removed only: replace without the g flag.
StripFirstColon(value) ==
    LET i == indexOf(value, ":")
    IN  trim(IF i < 0 THEN value
             ELSE SubSeq(value, 1, i) \o SubSeq(value, i + 2, Len(value)))

\* value.replace(/:/g, '').trim()
StripColons(value) == trim(replaceColons(value))

\* The text from the first 'CN=' of the value to the next '/', with or without a
\* '/' in front of it.
MatchFirstCN(value) ==
    LET starts == {i \in 1..(Len(value) - 2) : SubSeq(value, i, i + 2) = "CN="}
        first  == CHOOSE i \in starts : \A j \in starts : i <= j
        ends   == {j \in (first + 3)..Len(value) : SubSeq(value, j, j) = "/"}
        end    == IF ends = {} THEN Len(value) + 1
                  ELSE CHOOSE j \in ends : \A k \in ends : j <= k
    IN  IF starts = {} THEN Undefined
        ELSE trim(SubSeq(value, first + 3, end - 1))

\* value.match(/\/CN=([^/]+)/), then matches[1].trim(): the leftmost "/CN=" that
\* has a character other than '/' after it, and from there the longest run of
\* characters other than '/'; undefined without a match.
MatchCN(value) ==
    LET starts == {i \in 1..(Len(value) - 4) :
                      /\ SubSeq(value, i, i + 3) = "/CN="
                      /\ SubSeq(value, i + 4, i + 4) # "/"}
        first  == CHOOSE i \in starts : \A j \in starts : i <= j
        ends   == {j \in (first + 4)..Len(value) : SubSeq(value, j, j) = "/"}
        end    == IF ends = {} THEN Len(value) + 1
                  ELSE CHOOSE j \in ends : \A k \in ends : j <= k
    IN  IF starts = {} THEN Undefined
        ELSE trim(SubSeq(value, first + 4, end - 1))

\* new Date(value): an unparsable text gives an Invalid Date object, which is
\* truthy and compares false with every date.
NewDate(value) ==
    CASE value = DatePastText -> Past
      [] value = DateFutureText -> Future
      [] OTHER -> InvalidDate

\* onLine(line) applied to the properties found so far.
onLine(props, line) ==
    IF line = "" THEN props
    ELSE LET tuple == splitIntoKeyValue(line)
             key   == IF tuple.defined THEN tuple.key ELSE ""
             value == IF tuple.defined THEN tuple.value ELSE ""
         IN  IF key = "SHA1 Fingerprint"
             THEN [props EXCEPT !.fingerprint = StripColons(value)]
             ELSE IF key = "subject"
             THEN IF MatchCN(value) # Undefined
                  THEN [props EXCEPT !.commonName = MatchCN(value)]
                  ELSE props
             ELSE IF key = "notBefore"
             THEN [props EXCEPT !.notBefore = NewDate(value)]
             ELSE IF key = "notAfter"
             THEN [props EXCEPT !.notAfter = NewDate(value)]
             ELSE props

\* for (line of output.split('\n')) onLine(line)
RECURSIVE onLines(_, _)
onLines(props, lines) ==
    IF lines = << >> THEN props
    ELSE onLines(onLine(props, Head(lines)), Tail(lines))

\* What getP12Properties may return: the properties found in the lines of an
\* output of openssl x509.
X509Properties ==
    {[onLines(NoP12, split(x509Stdout(out))) EXCEPT !.read = TRUE] :
        out \in X509Outputs}

----------------------------------------------------------------------------
(* The certificate checks of the callback *)

\* The check with the common name forgotten.
InvalidP12FingerprintOnly(fingerprint, cn) == Falsy(fingerprint)

\* if (!fingerprint || !commonName)
InvalidP12(fingerprint, cn) == Falsy(fingerprint) \/ Falsy(cn)

\* if (!notBefore || !notAfter): a Date object, valid or not, is truthy
DatesUndefined(notBefore, notAfter) == notBefore = Undefined \/ notAfter = Undefined

\* The range check with the expiry side forgotten.
DatesNotYetValidOnly(notBefore, notAfter) == notBefore = Future

\* if (notBefore > now || notAfter < now): false when either side is NaN
DatesOutOfRange(notBefore, notAfter) == notBefore = Future \/ notAfter = Past

ErrInvalidP12      == "INVALID_P12"
ErrDatesUndefined  == "Certificate dates are invalid or undefined."
ErrDatesOutOfRange == "Certificate dates are invalid."
ErrKeychainMode    == "Unable to set location for keychain."
ErrCustomPathInput == "Input required and not supplied: customKeychainPath"

\* The password the caller supplied kept for the temporary keychain.
CallerPwd(keychainPwd) == keychainPwd

\* keychainPwd = Math.random().toString(36): in 'temp' mode the value read from
\* the input is overwritten by a generated one.
TempKeychainPwd(keychainPwd) == GeneratedPwd

\* Every mode that is neither 'temp' nor 'default' taken for 'custom'.
AnyOtherMode(keychain) == TRUE

\* else if (keychain === 'custom'); what is left over throws.
IsCustomMode(keychain) == keychain = "custom"

\* The keychain set up afresh whatever the flag and the file system say.
AlwaysSetup(useKeychainIfExists, keychainExists) == TRUE

\* The decision left to the flag alone.
SetupUnlessFlag(useKeychainIfExists, keychainExists) == ~useKeychainIfExists

\* let setupKeychain = true;
\* if (useKeychainIfExists && ioutils.exists(keychainPath)) setupKeychain = false;
setupKeychain(useKeychainIfExists, keychainExists) ==
    ~(useKeychainIfExists /\ keychainExists)

\* The locals of installCertInTemporaryKeychain on entry, on a host whose
\* keychains are kcs.
installCertInTemporaryKeychain(keychainPath, keychainPwd, useKeychainIfExists, kcs) ==
    LET keychainExists == keychainPath \in Paths /\ kcs[keychainPath].exists
    IN  [NoKc EXCEPT !.path = keychainPath, !.pwd = keychainPwd,
                     !.useKeychainIfExists = useKeychainIfExists,
                     !.existed = keychainExists,
                     !.setup = setupKeychain(useKeychainIfExists, keychainExists)]

\* if (setupKeychain) { delete, create, settings }; then the unlock.
FirstStep(setup) == IF setup THEN "deleteKeychain" ELSE "unlockKeychain"

\* The call entered with the keychain path not recorded yet.
BeginInstallUnrecorded(keychainPath, keychainPwd, e) ==
    LET call == installCertInTemporaryKeychain(keychainPath, keychainPwd, TRUE,
                                               keychains)
    IN  /\ env' = e
        /\ kc' = call
        /\ pc' = FirstStep(call.setup)
        /\ UNCHANGED cbError

\* The export of APPLE_CERTIFICATE_KEYCHAIN and the call of
\* installCertInTemporaryKeychain(keychainPath, keychainPwd, ..., true), which runs
\* up to its first await: setupKeychain is decided here.
BeginInstall(keychainPath, keychainPwd, e) ==
    LET useKeychainIfExists == TRUE
        call == installCertInTemporaryKeychain(keychainPath, keychainPwd,
                                               useKeychainIfExists, keychains)
    IN  /\ env' = exportVariable(e, "APPLE_CERTIFICATE_KEYCHAIN", keychainPath)
        /\ kc' = call
        /\ pc' = FirstStep(call.setup)
        /\ UNCHANGED cbError

\* The override left unused.
IgnoreOverride(commonNameOverride, extracted) == extracted

\* if (commonNameOverride) { commonName = commonNameOverride; }
overrideCommonName(commonNameOverride, extracted) ==
    IF ~Falsy(commonNameOverride) THEN commonNameOverride ELSE extracted

\* openssl x509 on the extracted certificate, then everything the callback does
\* before its next await: override, INVALID_P12 check, first exports, date
\* checks, keychain selection.
getP12Properties ==
    /\ pc = "x509"
    /\ exec(<<"openssl", "x509", "-in", "/tmp/step1.openssl", "-noout", "-fingerprint",
              "-subject", "-dates">>)
    /\ UNCHANGED <<hostVars, keychains, searchList, files, taskState, taskError,
                   failedMsg, fsWrites, pendingRm, td>>
    /\ \E ok \in BOOLEAN :
        IF ~ok
        THEN /\ Throw(ExecFailed("openssl"))
             /\ log' = IF Falsy(inputs.certPwd) THEN log \cup {"NoP12PwdWarning"} ELSE log
             /\ UNCHANGED <<env, inputs, p12, commonName, kc>>
        ELSE \E props \in X509Properties :
             LET cn    == overrideCommonName(inputs.commonNameOverride,
                                             props.commonName)
                 env1  == exportVariable(
                              exportVariable(env, "APPLE_CERTIFICATE_SHA1HASH",
                                             props.fingerprint),
                              "signingIdentity", cn)
             IN  /\ p12' = props
                 /\ commonName' = cn
                 /\ UNCHANGED log
                 /\ IF InvalidP12(props.fingerprint, cn)
                    THEN /\ Throw(ErrInvalidP12)
                         /\ UNCHANGED <<env, inputs, kc>>
                    ELSE IF DatesUndefined(props.notBefore, props.notAfter)
                    THEN /\ Throw(ErrDatesUndefined)
                         /\ env' = env1
                         /\ UNCHANGED <<inputs, kc>>
                    ELSE IF DatesOutOfRange(props.notBefore, props.notAfter)
                    THEN /\ Throw(ErrDatesOutOfRange)
                         /\ env' = env1
                         /\ UNCHANGED <<inputs, kc>>
                    ELSE IF inputs.keychain = "temp"
                    THEN /\ BeginInstall(getTempKeychainPath,
                                         TempKeychainPwd(inputs.keychainPwd),
                                         exportVariable(env1, "keychainPassword",
                                             TempKeychainPwd(inputs.keychainPwd)))
                         /\ UNCHANGED inputs
                    ELSE IF inputs.keychain = "default"
                    THEN /\ pc' = "defaultKeychain"
                         /\ env' = env1
                         /\ UNCHANGED <<inputs, kc, cbError>>
                    ELSE IF IsCustomMode(inputs.keychain)
                    THEN \E custom \in {"", CustomKeychainPath} :
                         /\ inputs' = [inputs EXCEPT !.customKeychainPath = custom]
                         /\ IF getInputThrows(custom, TRUE)
                            THEN /\ Throw(ErrCustomPathInput)
                                 /\ env' = env1
                                 /\ UNCHANGED kc
                            ELSE BeginInstall(custom, inputs.keychainPwd, env1)
                    ELSE /\ Throw(ErrKeychainMode)
                         /\ env' = env1
                         /\ UNCHANGED <<inputs, kc>>

\* getDefaultKeychainPath: security default-keychain, whose output names the
\* login keychain; then the export and the call as for the other modes.
getDefaultKeychainPath ==
    /\ pc = "defaultKeychain"
    /\ exec(<<"security", "default-keychain">>)
    /\ UNCHANGED <<hostVars, keychains, searchList, files, inputs, taskState, taskError,
                   failedMsg, log, p12, commonName, fsWrites, pendingRm, td>>
    /\ \E ok \in BOOLEAN :
        IF ok
        THEN BeginInstall(DefaultKeychainPath, inputs.keychainPwd, env)
        ELSE /\ Throw(ExecFailed("security"))
             /\ UNCHANGED <<env, kc>>

----------------------------------------------------------------------------
(* installCertInTemporaryKeychain, one step per awaited tool call *)

\* Effect of `security delete-keychain path`: the keychain is deleted and
\* dropped from the search list.
KeychainsWithout(path) == [keychains EXCEPT ![path] = NoKeychain]
ListWithout(path)      == SelectSeq(searchList, LAMBDA p : p # path)

\* What `security list-keychain -d user` prints for a search list: one indented,
\* quoted path per line.
RECURSIVE stdout(_)
stdout(list) ==
    IF list = << >> THEN ""
    ELSE "    \"" \o Head(list) \o "\"\n" \o stdout(Tail(list))

\* The stdout listener: each chunk is trimmed and appended to what the earlier
\* chunks left.
onStdout(listOutput, data) ==
    IF ~Falsy(listOutput) THEN listOutput \o trim(data) ELSE trim(data)

\* The places at which the stream may break the printed text into two chunks;
\* 0 is the text in one chunk.  A break between two characters that are not
\* white space leaves the listener with the text of the one chunk, so only
\* the breaks next to white space are told apart.
Cuts(list) ==
    LET text == stdout(list)
    IN  {0} \cup {cut \in 1..(Len(text) - 1) :
                     \/ SubSeq(text, cut, cut) \in Whitespace
                     \/ SubSeq(text, cut + 1, cut + 1) \in Whitespace}

\* What the listener holds when the exec has ended and the text came in one
\* chunk (cut = 0) or in two, broken after `cut` characters; undefined when
\* nothing was printed.
ListOutput(list, cut) ==
    LET text == stdout(list)
    IN  IF text = "" THEN Undefined
        ELSE IF cut = 0 THEN onStdout(Undefined, text)
        ELSE onStdout(onStdout(Undefined, SubSeq(text, 1, cut)),
                      SubSeq(text, cut + 1, Len(text)))

\* allKeychainsArr as the add step uses it: the output split at line breaks,
\* each piece trimmed and freed of quotes.
allKeychainsArr(listOutput) ==
    IF Falsy(listOutput) THEN << >>
    ELSE [i \in 1..Len(split(listOutput)) |->
             replaceQuotes(trim(split(listOutput)[i]))]

\* Every listing taken to name the path.
AlwaysHasPath(listOutput, keychainPath) == TRUE

\* listOutput && listOutput.indexOf(keychainPath) >= 0: a search in the text of
\* the output, not in its entries.
OutputHasPath(listOutput, keychainPath) ==
    /\ ~Falsy(listOutput)
    /\ indexOf(listOutput, keychainPath) >= 0

\* The arguments after `list-keychain -d user -s`.
listAddArgs(listOutput, keychainPath) == <<keychainPath>> \o allKeychainsArr(listOutput)

installUnchanged == <<hostVars, files, env, inputs, taskState, taskError, failedMsg,
                      p12, commonName, fsWrites, pendingRm, td>>

\* The command issued whether or not the keychain file is there.
DeleteRegardless(keychainExists) == TRUE

\* if (ioutils.exists(keychainPath)) of deleteKeychain.
NeedsDelete(keychainExists) == keychainExists

\* deleteKeychain(keychainPath) of the setup branch.
InstallDeleteKeychain ==
    /\ pc = "deleteKeychain"
    /\ UNCHANGED <<installUnchanged, log, kc>>
    /\ IF NeedsDelete(exists(kc.path))
       THEN /\ exec(<<"security", "delete-keychain", kc.path>>)
            /\ \E ok \in BOOLEAN :
                IF ok /\ exists(kc.path)
                THEN /\ keychains' = KeychainsWithout(kc.path)
                     /\ searchList' = ListWithout(kc.path)
                     /\ pc' = "createKeychain"
                     /\ UNCHANGED cbError
                ELSE /\ Throw(ExecFailed("security"))
                     /\ UNCHANGED <<keychains, searchList>>
       ELSE /\ pc' = "createKeychain"
            /\ UNCHANGED <<keychains, searchList, cmds, cbError>>

\* security create-keychain -p keychainPwd keychainPath
CreateKeychain ==
    /\ pc = "createKeychain"
    /\ exec(<<"security", "create-keychain", "-p", kc.pwd, kc.path>>)
    /\ UNCHANGED <<installUnchanged, log, kc, searchList>>
    /\ \E ok \in BOOLEAN :
        IF ok /\ ~exists(kc.path)
        THEN /\ keychains' = [keychains EXCEPT ![kc.path] =
                                [exists |-> TRUE, pwd |-> kc.pwd, locked |-> TRUE,
                                 timeout |-> 0, hasIdentity |-> FALSE, acl |-> FALSE]]
             /\ pc' = "keychainSettings"
             /\ UNCHANGED cbError
        ELSE /\ Throw(ExecFailed("security"))
             /\ UNCHANGED keychains

\* security set-keychain-settings -lut 21600 keychainPath
SetKeychainSettings ==
    /\ pc = "keychainSettings"
    /\ exec(<<"security", "set-keychain-settings", "-lut", "21600", kc.path>>)
    /\ UNCHANGED <<installUnchanged, log, kc, searchList>>
    /\ \E ok \in BOOLEAN :
        IF ok /\ exists(kc.path)
        THEN /\ keychains' = [keychains EXCEPT ![kc.path].timeout = KeychainTimeout]
             /\ pc' = "unlockKeychain"
             /\ UNCHANGED cbError
        ELSE /\ Throw(ExecFailed("security"))
             /\ UNCHANGED keychains

\* The unlock left out: the call goes on to the import at once.
SkipUnlock ==
    /\ pc = "unlockKeychain"
    /\ pc' = "import"
    /\ UNCHANGED <<installUnchanged, log, kc, searchList, keychains, cmds, cbError>>

\* unlockKeychain: security unlock-keychain -p keychainPwd keychainPath
unlockKeychain ==
    /\ pc = "unlockKeychain"
    /\ exec(<<"security", "unlock-keychain", "-p", kc.pwd, kc.path>>)
    /\ UNCHANGED <<installUnchanged, log, kc, searchList>>
    /\ \E ok \in BOOLEAN :
        IF ok /\ exists(kc.path) /\ keychains[kc.path].pwd = kc.pwd
        THEN /\ keychains' = [keychains EXCEPT ![kc.path].locked = FALSE]
             /\ pc' = "import"
             /\ UNCHANGED cbError
        ELSE /\ Throw(ExecFailed("security"))
             /\ UNCHANGED keychains

\* The partition list set for a freshly created keychain as well.
AlwaysPartition(setup) == "privateKeyOpenssl"

\* if (!setupKeychain) { getP12PrivateKeyName; setKeyPartitionList }, then the
\* listing.
AfterImport(setup) == IF setup THEN "listKeychains" ELSE "privateKeyOpenssl"

\* security import p12CertPath -P p12Pwd -A -t cert -f pkcs12 -k keychainPath
ImportCertificate ==
    /\ pc = "import"
    /\ exec(<<"security", "import", signingCertFile, "-P", inputs.certPwd, "-A", "-t",
              "cert", "-f", "pkcs12", "-k", kc.path>>)
    /\ UNCHANGED <<installUnchanged, log, kc, searchList>>
    /\ \E ok \in BOOLEAN :
        IF /\ ok
           /\ signingCertFile \in files
           /\ exists(kc.path)
           /\ ~keychains[kc.path].locked
        THEN /\ keychains' = [keychains EXCEPT ![kc.path].hasIdentity = TRUE]
             /\ pc' = AfterImport(kc.setup)
             /\ UNCHANGED cbError
        ELSE /\ Throw(ExecFailed("security"))
             /\ UNCHANGED keychains

GeneratedKeyPwd == "0.keypw"     \* generatePassword() of getP12PrivateKeyName

\* const privateKeyPassword = p12Pwd ? p12Pwd : generatePassword()
privateKeyPassword(p12Pwd) == IF ~Falsy(p12Pwd) THEN p12Pwd ELSE GeneratedKeyPwd

\* getP12PrivateKeyName, first exec: openssl pkcs12 -nocerts into a scratch file.
PrivateKeyOpenssl ==
    /\ pc = "privateKeyOpenssl"
    /\ exec(<<"openssl", "pkcs12", "-in", signingCertFile, "-out",
              "/tmp/p12privkeyname.tmp", "-nocerts", "-passin",
              "pass:" \o inputs.certPwd, "-passout",
              "pass:" \o privateKeyPassword(inputs.certPwd)>>)
    /\ UNCHANGED <<installUnchanged, log, kc, keychains, searchList>>
    /\ \E ok \in BOOLEAN :
        IF ok /\ signingCertFile \in files
        THEN /\ pc' = "privateKeyGrep"
             /\ UNCHANGED cbError
        ELSE Throw(ExecFailed("openssl"))

FriendlyName == "iOS Developer: Chris Sidi"

\* getP12PrivateKeyName, second exec: grep friendlyName; then setKeyPartitionList
\* up to its exec.
PrivateKeyGrep ==
    /\ pc = "privateKeyGrep"
    /\ exec(<<"grep", "friendlyName", "/tmp/p12privkeyname.tmp">>)
    /\ UNCHANGED <<installUnchanged, log, keychains, searchList>>
    /\ \E ok \in BOOLEAN, privateKeyName \in {Undefined, FriendlyName} :
        IF ~ok
        THEN /\ Throw(ExecFailed("grep"))
             /\ UNCHANGED kc
        ELSE IF Falsy(privateKeyName)
        THEN /\ Throw("P12PrivateKeyNameNotFound: " \o signingCertFile)
             /\ UNCHANGED kc
        ELSE /\ kc' = [kc EXCEPT !.privateKeyName = privateKeyName]
             /\ pc' = "setKeyPartitionList"
             /\ UNCHANGED cbError

\* Every failure of the command taken for a missing subcommand.
SwallowAll(unknownCommandErrorFound) == TRUE

\* catch (err) { if (unknownCommandErrorFound) log, else throw }
Swallowed(unknownCommandErrorFound) == unknownCommandErrorFound

\* setKeyPartitionList: security set-key-partition-list -S apple-tool:,apple:
\* -s -l privateKeyName -k keychainPwd keychainPath.  A failure whose stderr
\* had 'security: unknown command' is swallowed.
setKeyPartitionList ==
    /\ pc = "setKeyPartitionList"
    /\ exec(<<"security", "set-key-partition-list", "-S", partitionList, "-s", "-l",
              kc.privateKeyName, "-k", kc.pwd, kc.path>>)
    /\ UNCHANGED <<installUnchanged, searchList>>
    /\ \E outcome \in {"ok", "unknown command", "failed"} :
        LET unknownCommandErrorFound == outcome = "unknown command"
        IN  /\ kc' = [kc EXCEPT !.unknownCommandErrorFound = unknownCommandErrorFound]
            /\ IF outcome = "ok" /\ exists(kc.path)
               THEN /\ keychains' = [keychains EXCEPT ![kc.path].acl = TRUE]
                    /\ pc' = "listKeychains"
                    /\ UNCHANGED <<cbError, log>>
               ELSE IF Swallowed(unknownCommandErrorFound)
               THEN /\ log' = log \cup {"SetKeyPartitionListCommandNotFound"}
                    /\ pc' = "listKeychains"
                    /\ UNCHANGED <<cbError, keychains>>
               ELSE /\ log' = log \cup {ExecFailed("security")}
                    /\ Throw("SetKeyPartitionListCommandFailed")
                    /\ UNCHANGED keychains

\* security list-keychain -d user, and the decision whether the path has to be
\* added.
ListKeychains ==
    /\ pc = "listKeychains"
    /\ exec(<<"security", "list-keychain", "-d", "user">>)
    /\ UNCHANGED <<installUnchanged, log, keychains, searchList>>
    /\ \E ok \in BOOLEAN, cut \in Cuts(searchList) :
        IF ~ok
        THEN /\ Throw(ExecFailed("security"))
             /\ UNCHANGED kc
        ELSE LET listAllOutput == ListOutput(searchList, cut)
             IN  IF ~Falsy(listAllOutput) /\ ~OutputHasPath(listAllOutput, kc.path)
                 THEN /\ kc' = [kc EXCEPT !.listAllOutput = listAllOutput,
                                          !.listAddArgs =
                                              listAddArgs(listAllOutput, kc.path)]
                      /\ pc' = "addKeychain"
                      /\ UNCHANGED cbError
                 ELSE /\ kc' = [kc EXCEPT !.listAllOutput = listAllOutput]
                      /\ pc' = "verifyKeychain"
                      /\ UNCHANGED cbError

\* security list-keychain -d user -s keychainPath <existing entries>
AddKeychain ==
    /\ pc = "addKeychain"
    /\ exec(<<"security", "list-keychain", "-d", "user", "-s">> \o kc.listAddArgs)
    /\ UNCHANGED <<installUnchanged, log, kc, keychains>>
    /\ \E ok \in BOOLEAN :
        IF ok
        THEN /\ searchList' = kc.listAddArgs
             /\ pc' = "verifyKeychain"
             /\ UNCHANGED cbError
        ELSE /\ Throw(ExecFailed("security"))
             /\ UNCHANGED searchList

\* The removals at the end of the callback: in installcert.ts only.
CallbackRemovals == IF build = "src" THEN {tempCertFile, signingCertFile} ELSE {}

\* The second listing and its check; when it passes, the call returns and the
\* callback runs to its end: last exports and (installcert.ts) the removals.
VerifyKeychain ==
    /\ pc = "verifyKeychain"
    /\ exec(<<"security", "list-keychain", "-d", "user">>)
    /\ UNCHANGED <<hostVars, files, inputs, taskState, taskError, failedMsg, p12,
                   commonName, fsWrites, td, log, kc, keychains, searchList>>
    /\ \E ok \in BOOLEAN, cut \in Cuts(searchList) :
        IF ~ok
        THEN /\ Throw(ExecFailed("security"))
             /\ UNCHANGED <<env, pendingRm>>
        ELSE LET listVerifyOutput == ListOutput(searchList, cut)
             IN  IF ~OutputHasPath(listVerifyOutput, kc.path)
                 THEN /\ Throw("TempKeychainSetupFailed")
                      /\ UNCHANGED <<env, pendingRm>>
                 ELSE /\ env' = exportVariable(
                                  exportVariable(
                                    exportVariable(env, "keychainPath", kc.path),
                                    "APPLE_CERTIFICATE_SIGNING_IDENTITY", commonName),
                                  "APPLE_CERTIFICATE_KEYCHAIN", kc.path)
                      /\ rmRF(CallbackRemovals)
                      /\ pc' = "done"
                      /\ UNCHANGED cbError

\* An un-awaited io.rmRF completes: the file is gone.
RmRFCompletes ==
    /\ pendingRm # {}
    /\ \E f \in pendingRm :
        /\ files' = files \ {f}
        /\ pendingRm' = pendingRm \ {f}
    /\ UNCHANGED <<hostVars, keychains, searchList, env, inputs, taskState, taskError,
                   pc, cbError, failedMsg, log, p12, commonName, kc, cmds, fsWrites, td>>

----------------------------------------------------------------------------
(* Teardown step (postinstallcert.ts) *)

\* The installer's process has nothing left to run.
InstallEnded ==
    /\ taskState # "idle"
    /\ pc \in {"none", "writeError", "done", "failed"}
    /\ pendingRm = {}

RemoveProfileInputs == {"", "true", " True", "false"}

\* core.getInput('removeProfile').trim().toLowerCase() === 'true'
removeProfileFlag(input) == input \in {"true", " True"}

\* An error of teardown let through to the runner.
Rethrown(raised) == IF raised THEN "thrown" ELSE "none"

\* try { ... } catch (err) { core.warning(err) } around the whole of run().
catch(raised) == IF raised THEN "warning" ELSE "none"

\* run() of the teardown step: the recorded keychain is deleted only under the
\* removeProfile flag; an error ends as a warning.
run ==
    /\ InstallEnded
    /\ td.state = "idle"
    /\ UNCHANGED <<hostVars, files, env, inputs, taskState, taskError, pc, cbError,
                   failedMsg, log, p12, commonName, kc, cmds, fsWrites, pendingRm>>
    /\ \E input \in RemoveProfileInputs, ok \in BOOLEAN :
        LET keychainPath == env["APPLE_CERTIFICATE_KEYCHAIN"]
            deletes == /\ platform = "darwin"
                       /\ removeProfileFlag(input)
                       /\ keychainPath # Unset /\ ~Falsy(keychainPath)
                       /\ NeedsDelete(exists(keychainPath))
        IN  /\ td' = [state |-> "done",
                      removeProfile |-> input,
                      cmds |-> IF deletes
                               THEN <<(<<"security", "delete-keychain", keychainPath>>)>>
                               ELSE << >>,
                      warned |-> catch(deletes /\ ~(ok /\ exists(keychainPath)))
                                    = "warning",
                      threw |-> catch(deletes /\ ~(ok /\ exists(keychainPath)))
                                    = "thrown"]
            /\ IF deletes /\ ok /\ exists(keychainPath)
               THEN /\ keychains' = KeychainsWithout(keychainPath)
                    /\ searchList' = ListWithout(keychainPath)
               ELSE UNCHANGED <<keychains, searchList>>

----------------------------------------------------------------------------

Next ==
    \/ installSigningCertTask
    \/ WriteFileCallback
    \/ DecodeBase64
    \/ OpensslPkcs12
    \/ getP12Properties
    \/ getDefaultKeychainPath
    \/ InstallDeleteKeychain
    \/ CreateKeychain
    \/ SetKeychainSettings
    \/ unlockKeychain
    \/ ImportCertificate
    \/ PrivateKeyOpenssl
    \/ PrivateKeyGrep
    \/ setKeyPartitionList
    \/ ListKeychains
    \/ AddKeychain
    \/ VerifyKeychain
    \/ RmRFCompletes
    \/ run

Spec == Init /\ [][Next]_vars

----------------------------------------------------------------------------
(* installCertInTemporaryKeychain on its own: any caller, either flag *)

\* Search lists of the host, which may name a keychain of another volume.
KcLists ==
    {l \in SeqsUpTo(Paths \cup {BackupKeychainPath}, MaxListLen) :
        Cardinality(Range(l)) = Len(l)}

\* The state at a call installCertInTemporaryKeychain(keychainPath, keychainPwd,
\* signingCertFile, p12Pwd, useKeychainIfExists) on a macOS host: the P12 file
\* is in place and nothing has been issued yet.
InitKc ==
    /\ build = "src"
    /\ platform = "darwin"
    /\ keychains \in InitialKeychains
    /\ searchList \in KcLists
    /\ files = {signingCertFile}
    /\ env = [v \in VarNames |-> Unset]
    /\ \E p12Pwd \in {"", CertPwd} : inputs = [NoInputs EXCEPT !.certPwd = p12Pwd]
    /\ taskState = "resolved"
    /\ taskError = NoError
    /\ cbError = NoError
    /\ failedMsg = NoError
    /\ log = {}
    /\ p12 = NoP12
    /\ commonName = Undefined
    /\ \E keychainPath \in Paths, keychainPwd \in {GeneratedPwd, UserPwd},
          useKeychainIfExists \in BOOLEAN :
            kc = installCertInTemporaryKeychain(keychainPath, keychainPwd,
                                                useKeychainIfExists, keychains)
    /\ pc = FirstStep(kc.setup)
    /\ cmds = << >>
    /\ fsWrites = << >>
    /\ pendingRm = {}
    /\ profiles = {ProfileFile}
    /\ td = NoTd
    /\ find = NoFind
    /\ x509 = NoX509
    /\ other = NoOther

NextKc ==
    \/ InstallDeleteKeychain
    \/ CreateKeychain
    \/ SetKeychainSettings
    \/ unlockKeychain
    \/ ImportCertificate
    \/ PrivateKeyOpenssl
    \/ PrivateKeyGrep
    \/ setKeyPartitionList
    \/ ListKeychains
    \/ AddKeychain
    \/ VerifyKeychain
    \/ RmRFCompletes

SpecKc == InitKc /\ [][NextKc]_vars

----------------------------------------------------------------------------
(* Installs in a row on one host *)

\* The installs that have returned so far: each issued one import.
Installs == Cardinality({i \in 1..Len(cmds) : cmds[i][1] = "security" /\ cmds[i][2] = "import"})

\* After an install has returned and its removals are through, the next one
\* on the same keychain path: the P12 is decoded anew and
\* installCertInTemporaryKeychain is entered again.
InstallAgain ==
    /\ pc = "done"
    /\ pendingRm = {}
    /\ Installs < MaxInstalls
    /\ files' = files \cup {signingCertFile}
    /\ \E useKeychainIfExists \in BOOLEAN :
        kc' = installCertInTemporaryKeychain(kc.path, kc.pwd, useKeychainIfExists,
                                             keychains)
    /\ pc' = FirstStep(kc'.setup)
    /\ UNCHANGED <<hostVars, keychains, searchList, env, inputs, taskState, taskError,
                   cbError, failedMsg, log, p12, commonName, cmds, fsWrites, pendingRm,
                   td>>

NextTwice ==
    \/ NextKc
    \/ InstallAgain

SpecTwice == InitKc /\ [][NextTwice]_vars

----------------------------------------------------------------------------
(* deleteKeychain on its own: a caller that calls it again and again *)

\* One call deleteKeychain(keychainPath) from entry to return or rejection.
\* kc holds the argument and what ioutils.exists returned; pc tells how the
\* call ended.
deleteKeychain ==
    /\ pc \in {"none", "done", "failed"}
    /\ Len(cmds) < MaxDeleteCmds
    /\ UNCHANGED <<installUnchanged, log>>
    /\ \E keychainPath \in Paths :
        /\ kc' = [NoKc EXCEPT !.path = keychainPath, !.existed = exists(keychainPath)]
        /\ IF NeedsDelete(exists(keychainPath))
           THEN /\ exec(<<"security", "delete-keychain", keychainPath>>)
                /\ \E ok \in BOOLEAN :
                    IF ok /\ exists(keychainPath)
                    THEN /\ keychains' = KeychainsWithout(keychainPath)
                         /\ searchList' = ListWithout(keychainPath)
                         /\ pc' = "done"
                         /\ cbError' = NoError
                    ELSE /\ Throw(ExecFailed("security"))
                         /\ UNCHANGED <<keychains, searchList>>
           ELSE /\ pc' = "done"
                /\ cbError' = NoError
                /\ UNCHANGED <<keychains, searchList, cmds>>

InitDelete ==
    /\ build = "src"
    /\ platform = "darwin"
    /\ keychains \in InitialKeychains
    /\ searchList \in KcLists
    /\ files = {}
    /\ env = [v \in VarNames |-> Unset]
    /\ inputs = NoInputs
    /\ taskState = "idle"
    /\ taskError = NoError
    /\ pc = "none"
    /\ cbError = NoError
    /\ failedMsg = NoError
    /\ log = {}
    /\ p12 = NoP12
    /\ commonName = Undefined
    /\ kc = NoKc
    /\ cmds = << >>
    /\ fsWrites = << >>
    /\ pendingRm = {}
    /\ profiles = {ProfileFile}
    /\ td = NoTd
    /\ find = NoFind
    /\ x509 = NoX509
    /\ other = NoOther

NextDelete == deleteKeychain

SpecDelete == InitDelete /\ [][NextDelete]_vars

----------------------------------------------------------------------------
(* findSigningIdentity on its own: the output of find-identity arrives in chunks *)

\* Outputs of `security find-identity -v -p codesigning keychainPath`.
TwoIdentities ==
    "  1) A1B2 \"iPhone Developer: Ann\"\n  2) C3D4 \"iPhone Distribution: Bo\"\n"
        \o "     2 valid identities found\n"
OneIdentity ==
    "  1) A1B2 \"iPhone Developer: Ann\"\n     1 valid identities found\n"
NoIdentity == "     0 valid identities found\n"

FindIdentityOutputs == {TwoIdentities, OneIdentity, NoIdentity}

\* The places of the double quotes of a line.
QuotesOf(line) == {i \in 1..Len(line) : SubSeq(line, i, i) = "\""}

\* The leftmost match of /"(.+)"/ in a text without line breaks: from the first
\* quote that has a quote at least two places on, greedily to the last quote.
matchLine(line) ==
    LET starts == {i \in QuotesOf(line) : \E j \in QuotesOf(line) : j >= i + 2}
    IN  IF starts = {} THEN Undefined
        ELSE SubSeq(line,
                    CHOOSE i \in starts : \A k \in starts : i <= k,
                    CHOOSE j \in QuotesOf(line) : \A k \in QuotesOf(line) : k <= j)

\* matches[0] of text.match(/"(.+)"/g): the dot does not pass a line break, so
\* the first match is that of the first line that has one; undefined without.
RECURSIVE firstMatch(_)
firstMatch(lines) ==
    IF lines = << >> THEN Undefined
    ELSE IF matchLine(Head(lines)) # Undefined THEN matchLine(Head(lines))
    ELSE firstMatch(Tail(lines))

match(text) == firstMatch(split(text))

\* The stdout listener of findSigningIdentity on one chunk: the first match of
\* the trimmed chunk, freed of quotes, replaces signIdentity.
findIdentityListener(signIdentity, data) ==
    LET matches == match(trim(data))
    IN  IF matches # Undefined THEN replaceQuotes(matches) ELSE signIdentity

findUnchanged == <<build, platform, profiles, keychains, searchList, files, env, inputs,
                   taskState, taskError, pc, cbError, failedMsg, log, p12, commonName,
                   kc, cmds, fsWrites, pendingRm, td, other, x509>>

\* The stream delivers the next chunk, of any length, to the listener.
FindIdentityData ==
    /\ find.state = "reading"
    /\ find.stdout # ""
    /\ \E n \in 1..Len(find.stdout) :
        find' = [find EXCEPT
                    !.signIdentity = findIdentityListener(find.signIdentity,
                                                          SubSeq(find.stdout, 1, n)),
                    !.stdout = SubSeq(find.stdout, n + 1, Len(find.stdout))]
    /\ UNCHANGED findUnchanged

\* The exec has ended: findSigningIdentity returns signIdentity or throws.
findSigningIdentity ==
    /\ find.state = "reading"
    /\ find.stdout = ""
    /\ find' = IF ~Falsy(find.signIdentity)
               THEN [find EXCEPT !.state = "returned"]
               ELSE [find EXCEPT !.state = "failed", !.error = "SignIdNotFound"]
    /\ UNCHANGED findUnchanged

\* The state at the exec of a findSigningIdentity(keychainPath) call.
InitFind ==
    /\ build = "src"
    /\ platform = "darwin"
    /\ keychains \in InitialKeychains
    /\ searchList = << >>
    /\ files = {}
    /\ env = [v \in VarNames |-> Unset]
    /\ inputs = NoInputs
    /\ taskState = "idle"
    /\ taskError = NoError
    /\ pc = "none"
    /\ cbError = NoError
    /\ failedMsg = NoError
    /\ log = {}
    /\ p12 = NoP12
    /\ commonName = Undefined
    /\ kc = NoKc
    /\ cmds = <<(<<"security", "find-identity", "-v", "-p", "codesigning",
                   getTempKeychainPath>>)>>
    /\ fsWrites = << >>
    /\ pendingRm = {}
    /\ profiles = {ProfileFile}
    /\ td = NoTd
    /\ other = NoOther
    /\ x509 = NoX509
    /\ \E out \in FindIdentityOutputs :
        find = [NoFind EXCEPT !.output = out, !.stdout = out, !.state = "reading"]

NextFind ==
    \/ FindIdentityData
    \/ findSigningIdentity

SpecFind == InitFind /\ [][NextFind]_vars

----------------------------------------------------------------------------
(* Two jobs on one host: both calls are at the listing of the search list *)

\* What the steps of the other job leave alone: everything but its locals
\* and the search list of the host.
otherUnchanged == <<build, platform, profiles, find, x509, keychains, files, env, inputs,
                    taskState, taskError, pc, cbError, failedMsg, log, p12, commonName,
                    kc, cmds, fsWrites, pendingRm, td>>

\* The other job: security list-keychain -d user, and the decision whether its
\* path has to be added.
OtherListKeychains ==
    /\ other.pc = "listKeychains"
    /\ UNCHANGED <<otherUnchanged, searchList>>
    /\ \E ok \in BOOLEAN, cut \in Cuts(searchList) :
        LET issued == Append(other.cmds, <<"security", "list-keychain", "-d", "user">>)
            listAllOutput == ListOutput(searchList, cut)
        IN  IF ~ok
            THEN other' = [other EXCEPT !.cmds = issued, !.pc = "failed",
                                        !.error = ExecFailed("security")]
            ELSE IF ~Falsy(listAllOutput) /\ ~OutputHasPath(listAllOutput, other.path)
            THEN other' = [other EXCEPT !.cmds = issued,
                                        !.listAllOutput = listAllOutput,
                                        !.listAddArgs =
                                            listAddArgs(listAllOutput, other.path),
                                        !.pc = "addKeychain"]
            ELSE other' = [other EXCEPT !.cmds = issued,
                                        !.listAllOutput = listAllOutput,
                                        !.pc = "verifyKeychain"]

\* The other job: security list-keychain -d user -s keychainPath <entries it listed>
OtherAddKeychain ==
    /\ other.pc = "addKeychain"
    /\ UNCHANGED otherUnchanged
    /\ \E ok \in BOOLEAN :
        LET issued == Append(other.cmds,
                             <<"security", "list-keychain", "-d", "user", "-s">>
                                 \o other.listAddArgs)
        IN  IF ok
            THEN /\ searchList' = other.listAddArgs
                 /\ other' = [other EXCEPT !.cmds = issued, !.pc = "verifyKeychain"]
            ELSE /\ other' = [other EXCEPT !.cmds = issued, !.pc = "failed",
                                           !.error = ExecFailed("security")]
                 /\ UNCHANGED searchList

\* The other job: the second listing and its check.
OtherVerifyKeychain ==
    /\ other.pc = "verifyKeychain"
    /\ UNCHANGED <<otherUnchanged, searchList>>
    /\ \E ok \in BOOLEAN, cut \in Cuts(searchList) :
        LET issued == Append(other.cmds, <<"security", "list-keychain", "-d", "user">>)
            listVerifyOutput == ListOutput(searchList, cut)
        IN  IF ~ok
            THEN other' = [other EXCEPT !.cmds = issued, !.pc = "failed",
                                        !.error = ExecFailed("security")]
            ELSE IF ~OutputHasPath(listVerifyOutput, other.path)
            THEN other' = [other EXCEPT !.cmds = issued, !.pc = "failed",
                                        !.error = "TempKeychainSetupFailed"]
            ELSE other' = [other EXCEPT !.cmds = issued, !.pc = "done"]

\* Two installCertInTemporaryKeychain calls of two jobs with different keychain
\* paths, each with its keychain set up, unlocked and imported into, both
\* about to list the search list of the host.
InitPair ==
    /\ build = "src"
    /\ platform = "darwin"
    /\ searchList \in InitialLists
    /\ files = {signingCertFile}
    /\ env = [v \in VarNames |-> Unset]
    /\ inputs = [NoInputs EXCEPT !.certPwd = CertPwd]
    /\ taskState = "resolved"
    /\ taskError = NoError
    /\ cbError = NoError
    /\ failedMsg = NoError
    /\ log = {}
    /\ p12 = NoP12
    /\ commonName = Undefined
    /\ \E keychainPath \in Paths :
      \E otherPath \in Paths \ {keychainPath} :
        /\ keychains = [p \in Paths |->
                           IF p \in {keychainPath, otherPath, DefaultKeychainPath}
                           THEN [exists |-> TRUE, pwd |-> UserPwd,
                                 locked |-> p \notin {keychainPath, otherPath},
                                 timeout |-> 0,
                                 hasIdentity |-> p \in {keychainPath, otherPath},
                                 acl |-> FALSE]
                           ELSE NoKeychain]
        /\ kc = installCertInTemporaryKeychain(keychainPath, UserPwd, TRUE, keychains)
        /\ other = [NoOther EXCEPT !.path = otherPath, !.pc = "listKeychains"]
    /\ pc = "listKeychains"
    /\ cmds = << >>
    /\ fsWrites = << >>
    /\ pendingRm = {}
    /\ profiles = {ProfileFile}
    /\ td = NoTd
    /\ find = NoFind
    /\ x509 = NoX509

NextPair ==
    \/ ListKeychains
    \/ AddKeychain
    \/ VerifyKeychain
    \/ RmRFCompletes
    \/ OtherListKeychains
    \/ OtherAddKeychain
    \/ OtherVerifyKeychain

SpecPair == InitPair /\ [][NextPair]_vars

----------------------------------------------------------------------------
(* getP12Properties on its own: the loop over the lines of openssl x509 *)

MaxLines == 2                   \* lines of an output of openssl x509

\* Lines the loop may meet: those of the tool for certificates of several
\* kinds, and lines that are not of the form key=value.
LineFixtures ==
    {"SHA1 Fingerprint=" \o FingerprintText,
     "SHA1 Fingerprint=0C",
     "subject= " \o SubjectWithCN,
     "subject= " \o SubjectNoCN,
     "subject= /C=US/O=Chris Sidi/CN= iPhone Distribution: Bo ",
     "subject= /OU=DEV-CN=7/CN=Ann",
     "subject= /CN=/OU=DJ8T2973U7",
     "subject= /CN=/OU=DJ8T2973U7/CN=Ann",
     "notBefore=" \o DatePastText,
     "notAfter=" \o DateFutureText,
     "=BB:26",
     "unable to load certificate",
     ""}

\* Sequences over S of length at most n.
RECURSIVE AllSeqsUpTo(_, _)
AllSeqsUpTo(S, n) ==
    IF n = 0 THEN {<< >>}
    ELSE LET shorter == AllSeqsUpTo(S, n - 1)
         IN  shorter \cup {Append(s, x) : s \in {t \in shorter : Len(t) = n - 1},
                                            x \in S}

x509Unchanged == <<build, platform, profiles, find, other, keychains, searchList, files,
                   env, inputs, taskState, taskError, pc, cbError, failedMsg, log,
                   commonName, kc, cmds, fsWrites, pendingRm, td>>

\* One turn of the loop: onLine on the next line of the output.
ReadLine ==
    /\ x509.lines # << >>
    /\ p12' = onLine(p12, Head(x509.lines))
    /\ x509' = [lines |-> Tail(x509.lines),
                line |-> Head(x509.lines),
                tuple |-> IF Head(x509.lines) = "" THEN NoTuple
                          ELSE splitIntoKeyValue(Head(x509.lines))]
    /\ UNCHANGED x509Unchanged

\* The state when openssl x509 has ended and the loop begins.
InitX509 ==
    /\ build = "src"
    /\ platform = "darwin"
    /\ keychains \in InitialKeychains
    /\ searchList = << >>
    /\ files = {signingCertFile}
    /\ env = [v \in VarNames |-> Unset]
    /\ inputs = [NoInputs EXCEPT !.certPwd = CertPwd]
    /\ taskState = "resolved"
    /\ taskError = NoError
    /\ pc = "x509"
    /\ cbError = NoError
    /\ failedMsg = NoError
    /\ log = {}
    /\ p12 = NoP12
    /\ commonName = Undefined
    /\ kc = NoKc
    /\ cmds = << >>
    /\ fsWrites = << >>
    /\ pendingRm = {}
    /\ profiles = {ProfileFile}
    /\ td = NoTd
    /\ find = NoFind
    /\ other = NoOther
    /\ \E lines \in AllSeqsUpTo(LineFixtures, MaxLines) :
        x509 = [NoX509 EXCEPT !.lines = lines]

NextX509 == ReadLine

SpecX509 == InitX509 /\ [][NextX509]_vars

----------------------------------------------------------------------------
(* Vocabulary of the properties *)

TempKeychain == keychains[getTempKeychainPath]

InSearchList(path) == \E i \in 1..Len(searchList) : searchList[i] = path

\* Indices of the installer's `security <sub>` invocations, for sub in subs.
SecurityCmds(subs) ==
    {i \in 1..Len(cmds) : cmds[i][1] = "security" /\ cmds[i][2] \in subs}

KeychainSubcommands == {"create-keychain", "set-keychain-settings", "unlock-keychain",
                        "import", "set-key-partition-list", "list-keychain",
                        "delete-keychain", "default-keychain"}

DatesErrors == {ErrDatesUndefined, ErrDatesOutOfRange}

\* The installer run has failed: the task rejected, the callback threw, the
\* write failed, or setFailed was called.  pc = "done" is the callback having
\* run to its end.
WriteFailed == pc = "writeError"

InstallFailed ==
    \/ taskState = "rejected"
    \/ pc = "failed"
    \/ WriteFailed
    \/ failedMsg # NoError

----------------------------------------------------------------------------
(* Properties *)

\* C1: for a certificate that is valid now and keychain mode 'temp', once the
\* promise of installSigningCertTask() has resolved, the temp keychain exists,
\* is unlocked, is an entry of the search list and holds the imported identity.
\* (A run in which a tool call or the file write failed, or whose certificate
\* turned out invalid, is outside the claim.)
C1_ResolvedMeansInstalled ==
    ( /\ taskState = "resolved"
      /\ inputs.keychain = "temp"
      /\ inputs.encoded # ""
      /\ pc # "failed"
      /\ ~WriteFailed )
    => /\ TempKeychain.exists
       /\ ~TempKeychain.locked
       /\ TempKeychain.hasIdentity
       /\ InSearchList(getTempKeychainPath)

\* C2: after an install in temp mode has recorded the keychain path in
\* APPLE_CERTIFICATE_KEYCHAIN, a teardown whose removeProfile input is unset or
\* not 'true' has deleted that keychain and no provisioning profile.
C2_TeardownDeletesTempKeychain ==
    ( /\ td.state = "done"
      /\ inputs.keychain = "temp"
      /\ pc = "done"
      /\ env["APPLE_CERTIFICATE_KEYCHAIN"] = getTempKeychainPath
      /\ td.removeProfile \notin {"true", " True"}
      /\ ~td.warned )
    => /\ ~TempKeychain.exists
       /\ profiles = {ProfileFile}

\* C3: after a completed install in 'default' or 'custom' mode and a teardown
\* with any removeProfile value, the keychain the install used still exists.
C3_OnlyTempKeychainDeleted ==
    (td.state = "done" /\ inputs.keychain \in {"default", "custom"} /\ pc = "done")
    => keychains[kc.path].exists

\* C4: every fatal condition in the installer ends with the task marked failed
\* through setFailed with the original message.
C4_FatalErrorsReported ==
    /\ pc = "failed" => failedMsg = cbError
    /\ WriteFailed => failedMsg # NoError

\* C5: when an installer run has ended, with success or failure at any step,
\* neither /tmp/cert.base64 nor /tmp/cert.p12 exists.
C5_ScratchFilesRemoved ==
    (InstallEnded /\ fsWrites # << >>)
    => files \cap {tempCertFile, signingCertFile} = {}

\* C6: a failed installer run has exported none of the output variables.
C6_NoPartialSuccess ==
    InstallFailed => \A v \in VarNames : env[v] = Unset

\* C7: a certificate with an unparsable validity bound, or not valid now, (and
\* with fingerprint and common name present) makes the installer fail with a
\* dates-invalid error before a keychain is created, unlocked or imported into.
C7_BadDatesFailFirst ==
    ( /\ p12.read
      /\ ~Falsy(p12.fingerprint) /\ ~Falsy(commonName)
      /\ \/ p12.notBefore \in {Undefined, InvalidDate, Future}
         \/ p12.notAfter \in {Undefined, InvalidDate, Past} )
    => /\ pc = "failed"
       /\ cbError \in DatesErrors
       /\ SecurityCmds({"create-keychain", "unlock-keychain", "import"}) = {}

\* C8 (as stated): a certificate whose notAfter is earlier than now fails with
\* the dates-invalid error for every fingerprint and common name, empty ones
\* included.
C8_ExpiredAlwaysDatesError ==
    (p12.read /\ p12.notAfter = Past)
    => (pc = "failed" /\ cbError \in DatesErrors)

\* C8 (amended): a certificate whose notAfter is earlier than now makes the
\* install abort before any keychain command: with the dates-invalid error when
\* fingerprint and common name (after the override) are both non-empty, with
\* INVALID_P12 otherwise.
C8_ExpiredFails ==
    (p12.read /\ p12.notAfter = Past)
    => /\ pc = "failed"
       /\ IF Falsy(p12.fingerprint) \/ Falsy(commonName)
          THEN cbError = ErrInvalidP12
          ELSE cbError \in DatesErrors
       /\ SecurityCmds(KeychainSubcommands) = {}

C8_Witness ==
    /\ p12.read /\ p12.notAfter = Past /\ p12.notBefore = Past
    /\ ~Falsy(p12.fingerprint) /\ ~Falsy(commonName)
    /\ cbError = ErrDatesOutOfRange

\* C9: if, after the common-name override, the fingerprint or the common name
\* is empty, the install aborts with INVALID_P12 and no keychain command
\* (create, unlock, import, search-list change, or any other) has been issued.
C9_InvalidP12FailsFirst ==
    (p12.read /\ (Falsy(p12.fingerprint) \/ Falsy(commonName)))
    => /\ pc = "failed"
       /\ cbError = ErrInvalidP12
       /\ SecurityCmds(KeychainSubcommands) = {}
       /\ \A v \in VarNames : env[v] = Unset

C9_Witness ==
    /\ p12.read /\ ~Falsy(p12.fingerprint) /\ Falsy(commonName)
    /\ inputs.commonNameOverride = ""
    /\ cbError = ErrInvalidP12

C11_NotMacFailsAtOnce ==
    (platform # "darwin" /\ taskState # "idle")
    => /\ taskState = "rejected"
       /\ taskError = "InstallRequiresMac"
       /\ inputs = NoInputs
       /\ fsWrites = << >> /\ cmds = << >> /\ pendingRm = {}
       /\ pc = "none" /\ failedMsg = NoError
       /\ \A v \in VarNames : env[v] = Unset

C11_Witness ==
    platform = "linux" /\ taskState = "rejected" /\ taskError = "InstallRequiresMac"

\* C12: an install whose certificate-password is empty does not fail merely
\* because the password is empty: the task does not reject for the missing
\* password, and goes on to an import that carries '-P' followed by ''.
C12_EmptyPasswordAccepted ==
    ( /\ platform = "darwin" /\ taskState # "idle"
      /\ inputs.keychain # "" /\ inputs.certPwd = "" )
    => /\ taskState = "resolved"
       /\ taskError # "Input required and not supplied: certificate-password"

\* C13: a keychain mode other than 'temp', 'default' or 'custom' is fatal: the
\* run never completes, and at the mode selection the callback throws 'Unable
\* to set location for keychain.'; no keychain command of any kind is issued,
\* no keychain is selected or recorded, and teardown has nothing to delete.
C13_UnknownModeFatal ==
    (taskState # "idle" /\ platform = "darwin"
        /\ inputs.keychain \notin {"temp", "default", "custom"})
    => /\ pc # "done"
       /\ (inputs.keychain = "" => taskState = "rejected")
       /\ (p12.read => /\ pc = "failed"
                       /\ cbError \in {ErrInvalidP12, ErrKeychainMode} \cup DatesErrors)
       /\ SecurityCmds(KeychainSubcommands) = {}
       /\ kc = NoKc
       /\ env["APPLE_CERTIFICATE_KEYCHAIN"] = Unset
       /\ td.cmds = << >>

C13_Witness ==
    /\ inputs.keychain = "login"
    /\ pc = "failed" /\ cbError = ErrKeychainMode
    /\ td.state = "done" /\ td.removeProfile = "true"

\* C14: in 'custom' mode with an empty keychainPassword the installer fails
\* before any keychain operation: no security command is issued and the run
\* does not complete.
C14_CustomNeedsPassword ==
    (taskState # "idle" /\ inputs.keychain = "custom" /\ inputs.keychainPwd = "")
    => /\ SecurityCmds(KeychainSubcommands) = {}
       /\ pc # "done"

\* C15: the keychainPassword variable is exported only in 'temp' mode and
\* then holds the generated password, whatever keychainPassword the caller
\* supplied; in 'temp' mode it is exported as soon as the keychain has been
\* selected, and the temporary keychain is set up with that same password.
C15_PasswordExportedOnlyForTemp ==
    /\ (env["keychainPassword"] # Unset
            => /\ inputs.keychain = "temp"
               /\ env["keychainPassword"] = GeneratedPwd)
    /\ (inputs.keychain = "temp" /\ kc.path # Undefined
            => /\ env["keychainPassword"] = GeneratedPwd
               /\ kc.pwd = GeneratedPwd)
    /\ (inputs.keychain \in {"default", "custom"} /\ kc.path # Undefined
            => /\ env["keychainPassword"] = Unset
               /\ kc.pwd = inputs.keychainPwd)

C15_Witness ==
    /\ inputs.keychain = "temp" /\ inputs.keychainPwd = UserPwd
    /\ pc = "done"
    /\ env["keychainPassword"] = GeneratedPwd

----------------------------------------------------------------------------
(* Properties of installCertInTemporaryKeychain *)

\* The commands of one call, as the call's own arguments spell them.
DeleteCmd   == <<"security", "delete-keychain", kc.path>>
CreateCmd   == <<"security", "create-keychain", "-p", kc.pwd, kc.path>>
SettingsCmd == <<"security", "set-keychain-settings", "-lut", "21600", kc.path>>
UnlockCmd   == <<"security", "unlock-keychain", "-p", kc.pwd, kc.path>>
ImportCmd   == <<"security", "import", signingCertFile, "-P", inputs.certPwd, "-A",
                 "-t", "cert", "-f", "pkcs12", "-k", kc.path>>
ListCmd     == <<"security", "list-keychain", "-d", "user">>

\* C16: in every call an import is issued only after the unlock of the same
\* keychain with the call's password: the unlock precedes every import in the
\* command log, and at the moment the import is due the unlock was the last
\* command and has left the keychain unlocked.
C16_ImportAfterUnlock ==
    /\ \A i \in SecurityCmds({"import"}) :
          /\ cmds[i] = ImportCmd
          /\ \E j \in 1..(i - 1) : cmds[j] = UnlockCmd
    /\ pc = "import"
          => /\ cmds # << >>
             /\ cmds[Len(cmds)] = UnlockCmd
             /\ keychains[kc.path].exists
             /\ ~keychains[kc.path].locked

C16_Witness ==
    /\ SecurityCmds({"import"}) # {}
    /\ pc = "done"

\* C17: whenever the call has returned normally, keychainPath is an entry of
\* the user search list.
C17_ReturnedMeansListed ==
    pc = "done" => InSearchList(kc.path)

\* C18: with useKeychainIfExists and an existing keychain file no delete, create
\* or settings command is issued and the unlock is the first command; in every
\* other case the commands start with delete (only if the file existed),
\* create -p keychainPwd, set-keychain-settings -lut 21600, unlock, in this
\* order and once each; the unlock is issued in both cases unless one of the
\* commands before it failed.
C18_SetupThenUnlock ==
    LET reuse == kc.useKeychainIfExists /\ kc.existed
        first == (IF kc.existed THEN <<DeleteCmd>> ELSE << >>)
                    \o <<CreateCmd, SettingsCmd, UnlockCmd>>
        SetupSubs == {"delete-keychain", "create-keychain", "set-keychain-settings"}
    IN  /\ reuse => /\ SecurityCmds(SetupSubs) = {}
                    /\ cmds # << >> => cmds[1] = UnlockCmd
        /\ ~reuse => /\ \A i \in 1..Len(cmds) : i <= Len(first) => cmds[i] = first[i]
                     /\ \A i \in SecurityCmds(SetupSubs) : i < Len(first)
        /\ pc \notin {"deleteKeychain", "createKeychain", "keychainSettings",
                      "unlockKeychain", "failed"}
              => \E i \in 1..Len(cmds) : cmds[i] = UnlockCmd
        /\ (pc = "failed" /\ \A i \in 1..Len(cmds) : cmds[i] # UnlockCmd)
              => /\ ~reuse
                 /\ cbError = ExecFailed("security")
                 /\ Len(cmds) < Len(first)

C18_Witness ==
    /\ ~kc.useKeychainIfExists /\ kc.existed
    /\ pc = "done"
    /\ Len(cmds) >= 4
    /\ cmds[1] = DeleteCmd /\ cmds[4] = UnlockCmd

\* C19: for a keychain path that did not exist at the call, the run is the
\* same whatever useKeychainIfExists is: the commands issued are the start
\* of one sequence fixed by the path, the passwords and the listing alone
\* (create, settings, unlock, import, list, the add if the listing calls for
\* it, list), and a call that returns leaves the fresh keychain unlocked with
\* the identity and, if the add was issued, the search list the add names.
C19_FlagIrrelevantWhenAbsent ==
    LET out   == kc.listAllOutput
        add   == ~Falsy(out) /\ indexOf(out, kc.path) < 0
        added == <<kc.path>> \o allKeychainsArr(out)
        whole == <<CreateCmd, SettingsCmd, UnlockCmd, ImportCmd, ListCmd>>
                    \o (IF add THEN <<ListCmd \o <<"-s">> \o added>> ELSE << >>)
                    \o <<ListCmd>>
    IN  ~kc.existed
        => /\ kc.setup
           /\ \A i \in 1..Len(cmds) : i <= Len(whole) /\ cmds[i] = whole[i]
           /\ pc = "done"
                => /\ cmds = whole
                   /\ keychains[kc.path] =
                        [exists |-> TRUE, pwd |-> kc.pwd, locked |-> FALSE,
                         timeout |-> KeychainTimeout, hasIdentity |-> TRUE,
                         acl |-> FALSE]
                   /\ add => searchList = added
                   /\ ~add => ~Falsy(out) /\ searchList # << >>

C19_Witness ==
    /\ ~kc.existed /\ kc.useKeychainIfExists
    /\ pc = "done"
    /\ Len(searchList) = 2

----------------------------------------------------------------------------
(* Properties of deleteKeychain *)

\* C20: a deleteKeychain call on a path that does not exist issues no command,
\* changes neither the keychains nor the search list and returns without an
\* error; a call that returns leaves the path absent; and a call that follows
\* a returned call on the same path changes nothing, so that two calls in a
\* row leave the state of one.
C20_DeleteIdempotent ==
    [][ LET keychainPath == kc'.path
        IN  /\ ~keychains[keychainPath].exists
                => /\ cmds' = cmds
                   /\ keychains' = keychains
                   /\ searchList' = searchList
                   /\ pc' = "done" /\ cbError' = NoError
            /\ pc' = "done" => ~keychains'[keychainPath].exists
            /\ (pc = "done" /\ kc.path = keychainPath)
                => /\ cmds' = cmds
                   /\ keychains' = keychains
                   /\ searchList' = searchList
                   /\ pc' = "done" /\ cbError' = NoError
      ]_vars

\* A second call on the temporary keychain that the first call deleted.
C20_Witness ==
    /\ pc = "done"
    /\ kc.path = getTempKeychainPath /\ ~kc.existed
    /\ cmds = <<DeleteCmd>>
    /\ ~keychains[kc.path].exists

----------------------------------------------------------------------------
(* Properties of the search-list registration *)

\* How often a path is an entry of the user search list.
Occurrences(path) == Cardinality({i \in 1..Len(searchList) : searchList[i] = path})

\* C21: after two installs in a row with the same keychainPath have returned,
\* the user search list holds keychainPath exactly once.
C21_RegisteredOnce ==
    (pc = "done" /\ Installs = 2) => Occurrences(kc.path) = 1

\* C22: when the add is due (the path was not found in the listing), the list
\* handed to `list-keychain -d user -s` is the existing entries in their order
\* followed by keychainPath as the last element.
C22_PathAppendedLast ==
    pc = "addKeychain" => kc.listAddArgs = searchList \o <<kc.path>>

----------------------------------------------------------------------------
(* Properties of the partition list *)

PartitionCmd ==
    <<"security", "set-key-partition-list", "-S", "apple-tool:,apple:", "-s", "-l",
      FriendlyName, "-k", kc.pwd, kc.path>>

\* C23: set-key-partition-list is issued only in a call that reuses the
\* keychain (useKeychainIfExists and the file existed), then after the import
\* and with the friendly name of the P12's private key; a call that reuses the
\* keychain and gets as far as the listing has issued it; a call that creates
\* the keychain never issues it, nor does it look the name up.
C23_PartitionListIffReused ==
    LET reuse == kc.useKeychainIfExists /\ kc.existed
        set   == SecurityCmds({"set-key-partition-list"})
    IN  /\ \A i \in set :
              /\ reuse
              /\ cmds[i] = PartitionCmd
              /\ kc.privateKeyName = FriendlyName
              /\ \E j \in 1..(i - 1) : cmds[j] = ImportCmd
        /\ Cardinality(set) <= 1
        /\ (reuse /\ pc \in {"listKeychains", "addKeychain", "verifyKeychain", "done"})
              => set # {}
        /\ ~reuse => /\ set = {}
                     /\ kc.privateKeyName = Undefined
                     /\ \A i \in 1..Len(cmds) : cmds[i][1] \notin {"openssl", "grep"}

C23_Witness ==
    /\ kc.useKeychainIfExists /\ kc.existed
    /\ pc = "done"
    /\ \E i \in 1..Len(cmds) : cmds[i] = PartitionCmd
    /\ keychains[kc.path].acl

\* C24: a failed set-key-partition-list whose stderr had 'security: unknown
\* command' is logged as SetKeyPartitionListCommandNotFound and the call goes
\* on to the listing (it can still return); a failure without that line ends
\* the call with SetKeyPartitionListCommandFailed right after the command; and
\* once the command is over, exactly one of the three has happened: the ACL is
\* set, the failure was passed over, or the call has failed with that error.
C24_UnknownCommandTolerated ==
    LET notFound == "SetKeyPartitionListCommandNotFound" \in log
        failed   == cbError = "SetKeyPartitionListCommandFailed"
        over     == /\ SecurityCmds({"set-key-partition-list"}) # {}
                    /\ pc # "setKeyPartitionList"
    IN  /\ notFound <=> kc.unknownCommandErrorFound
        /\ notFound
              => /\ ~failed
                 /\ pc \in {"listKeychains", "addKeychain", "verifyKeychain", "done",
                            "failed"}
                 /\ pc # "listKeychains" => cmds[Len(cmds)] # PartitionCmd
                 /\ ~keychains[kc.path].acl
        /\ failed
              => /\ pc = "failed"
                 /\ cmds[Len(cmds)] = PartitionCmd
                 /\ ExecFailed("security") \in log
                 /\ ~keychains[kc.path].acl
        /\ over => \/ keychains[kc.path].acl /\ ~notFound /\ ~failed
                   \/ notFound
                   \/ failed

C24_Witness ==
    /\ kc.unknownCommandErrorFound
    /\ "SetKeyPartitionListCommandNotFound" \in log
    /\ pc = "done"

----------------------------------------------------------------------------
(* Properties of the scratch files and of teardown *)

\* C25: once the base64 decode step is over, whether it succeeded or failed,
\* and no removal is still under way, /tmp/cert.base64 is gone.
C25_Base64FileRemoved ==
    ( /\ \E i \in 1..Len(cmds) : cmds[i][1] = "base64"
      /\ pendingRm = {} )
    => tempCertFile \notin files

\* C26: teardown never fails the job: the step that runs it leaves the
\* installer's failure message and task state as they were, run() ends without
\* throwing, and a delete-keychain that failed (the recorded keychain is still
\* there after the command) is reported as a warning, and only then is there
\* a warning.
C26_TeardownNeverFails ==
    [][ (td.state = "idle" /\ td'.state = "done")
        => LET keychainPath == env["APPLE_CERTIFICATE_KEYCHAIN"]
               deleteFailed == /\ td'.cmds # << >>
                               /\ keychains'[keychainPath].exists
           IN  /\ ~td'.threw
               /\ failedMsg' = failedMsg
               /\ taskState' = taskState /\ taskError' = taskError
               /\ td'.warned <=> deleteFailed
      ]_vars

C26_Witness ==
    /\ td.state = "done"
    /\ td.warned
    /\ td.cmds = <<(<<"security", "delete-keychain", getTempKeychainPath>>)>>
    /\ TempKeychain.exists

\* C27: after teardown has run on macOS with removeProfile set to true, the
\* provisioning profile is deleted.
C27_ProfileDeleted ==
    (td.state = "done" /\ platform = "darwin" /\ td.removeProfile = "true")
    => ProfileFile \notin profiles

----------------------------------------------------------------------------
(* Properties of findSigningIdentity *)

\* C28: findSigningIdentity returns the first double-quoted string of the whole
\* find-identity output, however the output was split into chunks, and throws
\* SignIdNotFound exactly when the whole output has no double-quoted string.
C28_FirstIdentityWhateverTheChunks ==
    /\ find.state = "returned"
          => /\ match(find.output) # Undefined
             /\ find.signIdentity = replaceQuotes(match(find.output))
    /\ find.state = "failed"
          => /\ find.error = "SignIdNotFound"
             /\ match(find.output) = Undefined

\* C29: in the compiled installer the removal of /tmp/cert.p12 is issued in
\* the very step in which the task's promise resolves (the finally block),
\* that is before the write callback has run, and never by the callback; and
\* a step of the callback that works on a scratch file that is gone by then
\* fails.  The witness is the interleaving itself: the cleanup has executed
\* and the import is still to come.
C29_CleanupAheadOfCallback ==
    [][ build = "lib"
        => /\ (signingCertFile \in pendingRm' /\ signingCertFile \notin pendingRm)
                 <=> (taskState = "idle" /\ taskState' = "resolved")
           /\ (pc = "base64" /\ pc' # pc /\ tempCertFile \notin files)
                 => pc' = "failed"
           /\ (pc \in {"pkcs12", "import", "privateKeyOpenssl"} /\ pc' # pc
                    /\ signingCertFile \notin files)
                 => pc' = "failed"
      ]_vars

C29_Witness ==
    /\ build = "lib"
    /\ pc = "import"
    /\ signingCertFile \notin files
    /\ pendingRm = {}

\* C30: the update of the user search list keeps every keychain that was an
\* entry before it and leaves keychainPath an entry: the step that goes from
\* the listing to the verification without an add is taken only when
\* keychainPath is an entry already, and the add keeps the former entries and
\* brings keychainPath in; for every initial list, the empty one included,
\* and every split of the listing into chunks.
C30_UpdateKeepsEntriesAndAddsPath ==
    [][ /\ (pc = "listKeychains" /\ pc' = "verifyKeychain")
              => \E i \in 1..Len(searchList) : searchList[i] = kc.path
        /\ (pc = "addKeychain" /\ pc' = "verifyKeychain")
              => /\ \A i \in 1..Len(searchList) :
                        \E j \in 1..Len(searchList') : searchList'[j] = searchList[i]
                 /\ \E j \in 1..Len(searchList') : searchList'[j] = kc.path
      ]_vars

\* C31: in temp mode the password handed to unlock-keychain, which is also the
\* exported keychainPassword, is the password the keychain at the temp path
\* was created with, also when the run finds a temp keychain that an earlier
\* run has left.
C31_TempPasswordIsCreationPassword ==
    ( /\ inputs.keychain = "temp"
      /\ TempKeychain.exists
      /\ SecurityCmds({"unlock-keychain"}) # {} )
    => /\ \A i \in SecurityCmds({"unlock-keychain"}) : cmds[i][4] = TempKeychain.pwd
       /\ env["keychainPassword"] = TempKeychain.pwd

\* C32: two jobs that run installCertInTemporaryKeychain with different
\* keychain paths on one host can both return normally, each having passed
\* its own verification, while the search list they leave lacks the keychain
\* of one of them; and when that happens the list is what the other job re-set
\* it to, from the entries it had listed before (the witness is such an end).
C32_LossIsOverwrite ==
    (pc = "done" /\ other.pc = "done")
    => /\ ~InSearchList(kc.path)
            => /\ other.listAddArgs # << >>
               /\ searchList = other.listAddArgs
               /\ \A i \in 1..Len(other.listAddArgs) : other.listAddArgs[i] # kc.path
       /\ ~InSearchList(other.path)
            => /\ kc.listAddArgs # << >>
               /\ searchList = kc.listAddArgs
               /\ \A i \in 1..Len(kc.listAddArgs) : kc.listAddArgs[i] # other.path

C32_Witness ==
    /\ pc = "done"
    /\ other.pc = "done"
    /\ kc.path # other.path
    /\ ~InSearchList(kc.path)
    /\ InSearchList(other.path)

\* C33: within one installer run the native tools are invoked strictly one
\* after the other: a step issues at most one invocation, it is issued by the
\* callback at an await which the callback has left when the step is over (so
\* the next one starts only after this one has completed, and none after a
\* failed one), and the order is base64, openssl pkcs12, openssl x509, then
\* the keychain commands.
C33_ToolsStrictlySequential ==
    /\ [][ cmds' # cmds
           => /\ Len(cmds') = Len(cmds) + 1
              /\ SubSeq(cmds', 1, Len(cmds)) = cmds
              /\ pc \notin {"none", "writeFile", "writeError", "done", "failed"}
              /\ pc' # pc
         ]_vars
    /\ [] /\ Len(cmds) >= 1 => cmds[1][1] = "base64"
          /\ Len(cmds) >= 2 => cmds[2][1] = "openssl" /\ cmds[2][2] = "pkcs12"
          /\ Len(cmds) >= 3 => cmds[3][1] = "openssl" /\ cmds[3][2] = "x509"
          /\ \A i \in 1..Len(cmds) :
                /\ cmds[i][1] \in {"security", "grep"} => i > 3
                /\ i > 3 => cmds[i][1] # "base64" /\ cmds[i][2] # "x509"

C33_Witness ==
    /\ pc = "done"
    /\ Len(cmds) >= 10
    /\ cmds[1][1] = "base64"
    /\ cmds[4][2] = "create-keychain"
    /\ cmds[Len(cmds)][2] = "list-keychain"

\* C34: in every installer run APPLE_CERTIFICATE_KEYCHAIN holds the resolved
\* keychain path from before the first command that creates or modifies a
\* keychain: every such command names the recorded path, and the keychain a
\* later teardown looks up and deletes is that one, also when the install has
\* failed after the creation.
C34_KeychainRecordedBeforeUse ==
    /\ \A i \in SecurityCmds({"delete-keychain", "create-keychain",
                              "set-keychain-settings", "unlock-keychain", "import",
                              "set-key-partition-list"}) :
          /\ cmds[i][Len(cmds[i])] = env["APPLE_CERTIFICATE_KEYCHAIN"]
          /\ kc.path = env["APPLE_CERTIFICATE_KEYCHAIN"]
    /\ \A i \in SecurityCmds({"list-keychain"}) :
          kc.path = env["APPLE_CERTIFICATE_KEYCHAIN"]
    /\ (td.state = "done" /\ kc.path # Undefined)
          => \A i \in 1..Len(td.cmds) : td.cmds[i] = <<"security", "delete-keychain", kc.path>>

C34_Witness ==
    /\ pc = "failed"
    /\ SecurityCmds({"create-keychain"}) # {}
    /\ cbError = "TempKeychainSetupFailed"
    /\ env["APPLE_CERTIFICATE_KEYCHAIN"] = kc.path
    /\ td.state = "done"
    /\ td.cmds = <<(<<"security", "delete-keychain", kc.path>>)>>
    /\ ~keychains[kc.path].exists

\* C35: after a successful install signingIdentity and
\* APPLE_CERTIFICATE_SIGNING_IDENTITY hold the same value, the
\* certSigningIdentity override when it is not empty and the common name
\* extracted from the certificate otherwise; keychainPath and
\* APPLE_CERTIFICATE_KEYCHAIN hold the same resolved path.
C35_LegacyDuplicatesAgree ==
    pc = "done"
    => /\ env["signingIdentity"] = env["APPLE_CERTIFICATE_SIGNING_IDENTITY"]
       /\ env["signingIdentity"] =
             IF inputs.commonNameOverride # "" THEN inputs.commonNameOverride
             ELSE p12.commonName
       /\ env["signingIdentity"] \notin {Unset, Undefined, ""}
       /\ env["keychainPath"] = env["APPLE_CERTIFICATE_KEYCHAIN"]
       /\ env["keychainPath"] = kc.path
       /\ kc.path = CASE inputs.keychain = "temp" -> getTempKeychainPath
                      [] inputs.keychain = "default" -> DefaultKeychainPath
                      [] OTHER -> inputs.customKeychainPath

C35_Witness ==
    /\ pc = "done"
    /\ inputs.commonNameOverride = "Override Name"
    /\ p12.commonName = "iPhone Developer: Chris Sidi (7RZ3N927YF)"
    /\ env["APPLE_CERTIFICATE_SIGNING_IDENTITY"] = "Override Name"
    /\ env["keychainPath"] = CustomKeychainPath

\* C36: for every line that has an '=', splitIntoKeyValue returns as key the
\* text before the first '=' and as value all the text after it.
C36_SplitAtFirstEquals ==
    \A i \in 1..Len(x509.line) :
        ( /\ SubSeq(x509.line, i, i) = "="
          /\ \A j \in 1..(i - 1) : SubSeq(x509.line, j, j) # "=" )
        => /\ x509.tuple.defined
           /\ x509.tuple.key = SubSeq(x509.line, 1, i - 1)
           /\ x509.tuple.value = SubSeq(x509.line, i + 1, Len(x509.line))

\* The places of a value at which a text begins.
PlacesOf(text, value) ==
    {i \in 1..(Len(value) - Len(text) + 1) : SubSeq(value, i, i + Len(text) - 1) = text}

\* C37 as claimed: for a subject value with a CN component, "/CN=...", the
\* common name is the text between the 'CN=' of the first one and the next '/'
\* (or the end of the value), trimmed; for a subject without a CN component
\* the common name stays as it was, absent.
C37_FirstCNComponent ==
    [][ x509'.tuple.key = "subject"
        => LET value == x509'.tuple.value
               cns   == PlacesOf("/CN=", value)
           IN  IF cns = {} THEN p12'.commonName = p12.commonName
               ELSE \E i \in cns :
                    /\ \A j \in cns : i <= j
                    /\ \E e \in (i + 4)..(Len(value) + 1) :
                        /\ e = Len(value) + 1 \/ SubSeq(value, e, e) = "/"
                        /\ \A k \in (i + 4)..(e - 1) : SubSeq(value, k, k) # "/"
                        /\ p12'.commonName = trim(SubSeq(value, i + 4, e - 1))
      ]_vars

\* C37: for a subject value the common name is the text between the 'CN=' of
\* the first CN component that is not empty ("/CN=" followed by a character
\* other than '/') and the next '/' (or the end of the value), trimmed; for a
\* subject without such a component the common name stays as it was and the
\* extractor raises nothing.
C37_FirstNonEmptyCNComponent ==
    [][ x509'.tuple.key = "subject"
        => LET value == x509'.tuple.value
               cns   == {i \in PlacesOf("/CN=", value) :
                            i + 4 <= Len(value) /\ SubSeq(value, i + 4, i + 4) # "/"}
           IN  IF cns = {} THEN p12'.commonName = p12.commonName
               ELSE \E i \in cns :
                    /\ \A j \in cns : i <= j
                    /\ \E e \in (i + 4)..(Len(value) + 1) :
                        /\ e = Len(value) + 1 \/ SubSeq(value, e, e) = "/"
                        /\ \A k \in (i + 4)..(e - 1) : SubSeq(value, k, k) # "/"
                        /\ p12'.commonName = trim(SubSeq(value, i + 4, e - 1))
      ]_vars

C37_Witness ==
    /\ x509.line = "subject= /CN=/OU=DJ8T2973U7/CN=Ann"
    /\ x509.tuple.key = "subject"
    /\ p12.commonName = "Ann"

\* C38: for a fingerprint value of the form XX:XX:...:XX the normalized
\* fingerprint has no colon, is as long as the value less its colons, and is
\* the pairs of the value in their order.
C38_FingerprintWithoutColons ==
    LET value  == x509.tuple.value
        colons == PlacesOf(":", value)
        pairs  == (Len(value) + 1) \div 3
    IN  ( /\ x509.tuple.key = "SHA1 Fingerprint"
          /\ Len(value) % 3 = 2
          /\ \A i \in 1..Len(value) : (i % 3 = 0) <=> (i \in colons) )
        => /\ PlacesOf(":", p12.fingerprint) = {}
           /\ Len(p12.fingerprint) = Len(value) - Cardinality(colons)
           /\ \A k \in 0..(pairs - 1) :
                 SubSeq(p12.fingerprint, 2 * k + 1, 2 * k + 2)
                    = SubSeq(value, 3 * k + 1, 3 * k + 2)

C38_Witness ==
    /\ x509.line = "SHA1 Fingerprint=" \o FingerprintText
    /\ x509.tuple.value = FingerprintText
    /\ p12.fingerprint = "BB2683C6AA8835DE"

====
